---- MODULE Spec2Model ----
(***************************************************************************)
(* The review session of src/components/ReviewInterface.tsx together with  *)
(* the service functions of src/services/geminiService.ts it awaits.       *)
(*                                                                         *)
(* A text is a sequence of one-character strings.  A finding id            *)
(* `risk-${index}-${Date.now()}` is the pair <<index, now>>.  A nullable   *)
(* value (initialSession, a request in flight) is a sequence of length 0   *)
(* or 1; the null selectedRiskId is NoId and the null summary "null".      *)
(***************************************************************************)
EXTENDS Integers, Sequences, FiniteSets, TLC

\* ---------------------------------------------------------------- bounds
MaxFindings == 2    \* findings in one analyzer reply
MaxSessions == 1    \* sessions emitted before the last analysis pass starts
MaxAnalysisReqs == 2 \* analyzer calls in flight
MaxSummaryReqs == 2 \* summary requests in flight
MaxTextLen == 6     \* longest document text an accepted edit may produce

\* ---------------------------------------------------------------- inputs
\* contract.content values the parent may supply.
Docs == { <<"a", "b", "c", "a", "b">>, <<"a", "b">> }

\* What the analyzer may name in one element of its JSON array:
\* a repeated substring; one overlapping it, with a replacement holding the
\* `$$` pattern of String.prototype.replace; the empty string.
RawFindings ==
  { [originalText |-> <<"a", "b">>, suggestedText |-> <<"c">>,      level |-> "HIGH"],
    [originalText |-> <<"b", "c">>, suggestedText |-> <<"$", "$">>, level |-> "MEDIUM"],
    [originalText |-> <<>>,         suggestedText |-> <<"b">>,      level |-> "LOW"] }

RECURSIVE SeqsUpTo(_, _)
SeqsUpTo(S, n) ==
  IF n = 0 THEN { <<>> }
  ELSE LET shorter == SeqsUpTo(S, n - 1)
       IN  shorter \cup { Append(s, x) : s \in { t \in shorter : Len(t) = n - 1 }, x \in S }

\* A reply of the generative model: a JSON array of findings, a text that
\* is no JSON array, or a rejected call.
AnalyzerReplies ==
  { [kind |-> "array", items |-> its] : its \in SeqsUpTo(RawFindings, MaxFindings) }
    \cup { [kind |-> "malformed", items |-> <<>>], [kind |-> "error", items |-> <<>>] }

SummaryReplies == { "json", "empty", "error" }

NoId == <<>>

\* ------------------------------------------------------- string functions
\* String.prototype.indexOf, 1-based; 0 when absent.
IndexOf(text, pat) ==
  LET hits == { i \in 1..(Len(text) - Len(pat) + 1) :
                  SubSeq(text, i, i + Len(pat) - 1) = pat }
  IN  IF hits = {} THEN 0 ELSE CHOOSE i \in hits : \A j \in hits : i <= j

\* GetSubstitution of ECMAScript for a string pattern (no captures):
\* $$ is a dollar, $& the match, $` the text before it, $' the text after
\* it; any other dollar stays as written.
RECURSIVE GetSubstitution(_, _, _, _)
GetSubstitution(matched, before, after, repl) ==
  IF repl = <<>> THEN <<>>
  ELSE IF Head(repl) = "$" /\ Len(repl) >= 2
       THEN LET c == repl[2]
                rest == SubSeq(repl, 3, Len(repl))
            IN  IF c = "$" THEN <<"$">> \o GetSubstitution(matched, before, after, rest)
                ELSE IF c = "&" THEN matched \o GetSubstitution(matched, before, after, rest)
                ELSE IF c = "`" THEN before \o GetSubstitution(matched, before, after, rest)
                ELSE IF c = "'" THEN after \o GetSubstitution(matched, before, after, rest)
                ELSE <<"$">> \o GetSubstitution(matched, before, after, Tail(repl))
       ELSE <<Head(repl)>> \o GetSubstitution(matched, before, after, Tail(repl))

\* Mutant of StringReplace: the replacement is appended when the pattern is absent.
StringReplaceAppending(text, pat, repl) ==
  LET i == IndexOf(text, pat)
  IN  IF i = 0 THEN text \o repl
      ELSE LET before == SubSeq(text, 1, i - 1)
               after == SubSeq(text, i + Len(pat), Len(text))
           IN  before \o GetSubstitution(pat, before, after, repl) \o after

\* String.prototype.replace(pattern: string, replacement: string).
StringReplace(text, pat, repl) ==
  LET i == IndexOf(text, pat)
  IN  IF i = 0 THEN text
      ELSE LET before == SubSeq(text, 1, i - 1)
               after == SubSeq(text, i + Len(pat), Len(text))
           IN  before \o GetSubstitution(pat, before, after, repl) \o after

\* String.prototype.split(separator: string), no limit.
RECURSIVE SplitFrom(_, _)
SplitFrom(text, sep) ==
  LET i == IndexOf(text, sep)
  IN  IF i = 0 THEN <<text>>
      ELSE <<SubSeq(text, 1, i - 1)>> \o SplitFrom(SubSeq(text, i + Len(sep), Len(text)), sep)

StringSplit(text, sep) ==
  IF sep = <<>> THEN [i \in 1..Len(text) |-> <<text[i]>>]
  ELSE SplitFrom(text, sep)

\* ------------------------------------------------------ service functions
\* The fallback of generateContractSummary's catch block.
UnknownSummary == "Unknown"

\* generateContractSummary: the parsed JSON object, `{}` when the reply has
\* no text, the placeholder when the call or JSON.parse throws.
generateContractSummary(reply) ==
  IF reply = "json" THEN "Parsed"
  ELSE IF reply = "empty" THEN "EmptyObject"
  ELSE UnknownSummary

\* Mutant of RiskId: the index is left out of the id.
RiskIdWithoutIndex(index, time) == <<0, time>>

\* id: `risk-${index}-${Date.now()}`
RiskId(index, time) == <<index, time>>

\* analyzeContractRisks: rawRisks.map(...) of a parsed array; [] from the
\* catch block when the call rejects or the text is no array.
analyzeContractRisks(reply, time) ==
  IF reply.kind = "array"
  THEN [i \in 1..Len(reply.items) |->
          [id |-> RiskId(i - 1, time),
           originalText |-> reply.items[i].originalText,
           suggestedText |-> reply.items[i].suggestedText,
           level |-> reply.items[i].level,
           isAddressed |-> FALSE]]
  ELSE <<>>

\* What the model may answer to the drafting call: a text, a reply without
\* text, a rejected call.
DrafterReplies == { "text", "empty", "error" }

\* Mutant of draftNewContract: a rejected call is not caught.
draftNewContractWithoutCatch(reply) ==
  IF reply = "text" THEN "Generated"
  ELSE IF reply = "empty" THEN "Drafting failed."
  ELSE "Uncaught"

\* draftNewContract: response.text || "Drafting failed."; the string of the
\* catch block when the call rejects.
draftNewContract(reply) ==
  IF reply = "text" THEN "Generated"
  ELSE IF reply = "empty" THEN "Drafting failed."
  ELSE "Error drafting contract."

\* ------------------------------------------------------------------ state
VARIABLES
  contract,        \* props.contract.content
  initialSession,  \* props.initialSession: <<>> or <<session>>
  currentText,     \* useState currentText
  summary,         \* useState summary
  risks,           \* useState risks
  loading,         \* useState loading
  selectedRiskId,  \* useState selectedRiskId
  analysis,        \* handleAnalyze calls awaiting the analyzer, with their closures
  summaryReqs,     \* number of fetchSummary calls awaiting the summarizer
  saved,           \* the sessions handed to onSaveSession, in order
  now,             \* Date.now()
  alerts,          \* number of alert() calls
  last,            \* the handler that ran last, with its argument and what it read
  seen,            \* ids seen resolved since the props last changed
  result           \* what draftNewContract returned last (ContractDrafting's result)

vars == <<contract, initialSession, currentText, summary, risks, loading,
          selectedRiskId, analysis, summaryReqs, saved, now, alerts, last, seen, result>>

\* ---------------------------------------------------------------- helpers
\* risks.filter(r => !r.isAddressed)
ActiveRisks(rs) == LET Active(r) == ~r.isAddressed IN SelectSeq(rs, Active)

\* Array.prototype.findIndex(r => r.id === id), 1-based; 0 for -1.
FindIndex(rs, id) ==
  LET hits == { i \in 1..Len(rs) : rs[i].id = id }
  IN  IF hits = {} THEN 0 ELSE CHOOSE i \in hits : \A j \in hits : i <= j

\* Mutant of MarkAddressed: every other finding is reset.
MarkOnlyAddressed(rs, id) ==
  [i \in 1..Len(rs) |-> [rs[i] EXCEPT !.isAddressed = (rs[i].id = id)]]

\* prev.map(r => r.id === id ? { ...r, isAddressed: true } : r)
MarkAddressed(rs, id) ==
  [i \in 1..Len(rs) |-> IF rs[i].id = id THEN [rs[i] EXCEPT !.isAddressed = TRUE] ELSE rs[i]]

ResolvedIds(rs) == { rs[i].id : i \in { j \in 1..Len(rs) : rs[j].isAddressed } }

\* ------------------------------------------------- renderDocumentContent
PlainPart(text) == [text |-> text, riskId |-> NoId, level |-> "none"]
RiskPart(risk) == [text |-> risk.originalText, riskId |-> risk.id, level |-> risk.level]

\* Mutant of Interleave: the finding is pushed after the last piece as well.
RECURSIVE InterleaveTrailing(_, _)
InterleaveTrailing(split, risk) ==
  IF split = <<>> THEN <<>>
  ELSE <<PlainPart(Head(split)), RiskPart(risk)>> \o InterleaveTrailing(Tail(split), risk)

\* The inner for loop: split[0], risk, split[1], risk, ..., split[n-1].
RECURSIVE Interleave(_, _)
Interleave(split, risk) ==
  IF Len(split) = 1 THEN <<PlainPart(split[1])>>
  ELSE <<PlainPart(Head(split)), RiskPart(risk)>> \o Interleave(Tail(split), risk)

\* Mutant of SplitPart: a part that is already highlighted is split as well.
SplitPartAlsoTagged(part, risk) ==
  LET split == StringSplit(part.text, risk.originalText)
  IN  IF Len(split) > 1 THEN Interleave(split, risk) ELSE <<part>>

\* What one part contributes to newParts in the pass of `risk`.
SplitPart(part, risk) ==
  IF part.riskId # NoId THEN <<part>>
  ELSE LET split == StringSplit(part.text, risk.originalText)
       IN  IF Len(split) > 1 THEN Interleave(split, risk) ELSE <<part>>

\* parts.forEach(...) for one risk.
RECURSIVE RenderPass(_, _)
RenderPass(parts, risk) ==
  IF parts = <<>> THEN <<>>
  ELSE SplitPart(Head(parts), risk) \o RenderPass(Tail(parts), risk)

\* The parts after the passes of the first k active risks.
RECURSIVE RenderAfter(_, _, _)
RenderAfter(text, active, k) ==
  IF k = 0 THEN <<PlainPart(text)>>
  ELSE RenderPass(RenderAfter(text, active, k - 1), active[k])

renderDocumentContent(text, rs) ==
  LET active == ActiveRisks(rs) IN RenderAfter(text, active, Len(active))

RECURSIVE ConcatTexts(_)
ConcatTexts(parts) ==
  IF parts = <<>> THEN <<>> ELSE Head(parts).text \o ConcatTexts(Tail(parts))

\* The ids of the highlighted spans, each of which calls handleSelectRisk on click.
HighlightedIds(text, rs) ==
  LET parts == renderDocumentContent(text, rs)
  IN  { parts[i].riskId : i \in { j \in 1..Len(parts) : parts[j].riskId # NoId } }

\* const selectedRisk = risks.find(r => r.id === selectedRiskId): its index, 0 for undefined.
SelectedIndex == FindIndex(risks, selectedRiskId)

\* ------------------------------------------------------------ operations
\* History of the last step: the handler's name, the finding id it was given
\* (for navigateRisk the selection it found), the document text an accept
\* read, and the items of the reply an analysis resumed with.
Last(name, id, text, items) == [name |-> name, id |-> id, text |-> text, items |-> items]

Session(text, sum, rs, time) ==
  [id |-> time, content |-> text, summary |-> sum, risks |-> rs, timestamp |-> time]

\* The state after the component is mounted on a new document: the useState
\* initial values and the first run of the effect (no initialSession).
Init ==
  /\ contract \in Docs
  /\ initialSession = <<>>
  /\ currentText = contract
  /\ summary = "null"
  /\ risks = <<>>
  /\ loading = FALSE
  /\ selectedRiskId = NoId
  /\ analysis = <<>>
  /\ summaryReqs = 1
  /\ saved = <<>>
  /\ now = 0
  /\ alerts = 0
  /\ last = Last("mount", NoId, <<>>, <<>>)
  /\ seen = {}
  /\ result = ""

\* useEffect, else branch: the parent supplies a document without a session.
LoadDocument(doc) ==
  /\ doc # contract \/ initialSession # <<>>
  /\ summaryReqs < MaxSummaryReqs
  /\ contract' = doc
  /\ initialSession' = <<>>
  /\ currentText' = doc
  /\ risks' = <<>>
  /\ summary' = "null"
  /\ selectedRiskId' = NoId
  /\ summaryReqs' = summaryReqs + 1
  /\ seen' = {}
  /\ last' = Last("load", NoId, <<>>, <<>>)
  /\ UNCHANGED <<result, loading, analysis, saved, now, alerts>>

\* Mutant of RestoreSession: the summary of the session is not installed.
RestoreSessionKeepingSummary(s) ==
  /\ <<s>> # initialSession
  /\ contract' = s.content
  /\ initialSession' = <<s>>
  /\ currentText' = s.content
  /\ risks' = s.risks
  /\ seen' = ResolvedIds(s.risks)
  /\ last' = Last("restore", NoId, <<>>, <<>>)
  /\ UNCHANGED <<result, summary, loading, selectedRiskId, analysis, summaryReqs, saved, now, alerts>>

\* useEffect, then branch: the parent supplies a persisted session and its document.
RestoreSession(s) ==
  /\ <<s>> # initialSession
  /\ contract' = s.content
  /\ initialSession' = <<s>>
  /\ currentText' = s.content
  /\ risks' = s.risks
  /\ summary' = s.summary
  /\ seen' = ResolvedIds(s.risks)
  /\ last' = Last("restore", NoId, <<>>, <<>>)
  /\ UNCHANGED <<result, loading, selectedRiskId, analysis, summaryReqs, saved, now, alerts>>

\* fetchSummary resumes with the summarizer's answer to one pending call.
SummaryArrives(reply) ==
  /\ summaryReqs > 0
  /\ summary' = generateContractSummary(reply)
  /\ summaryReqs' = summaryReqs - 1
  /\ last' = Last("summary", NoId, <<>>, <<>>)
  /\ UNCHANGED <<result, contract, initialSession, currentText, risks, loading, selectedRiskId,
                 analysis, saved, now, alerts, seen>>

\* handleAnalyze up to its await; `guard` is what lets the caller invoke it.
AnalyzeStart(guard) ==
  /\ guard
  /\ Len(saved) < MaxSessions
  /\ Len(analysis) < MaxAnalysisReqs
  /\ loading' = TRUE
  /\ analysis' = Append(analysis, [text |-> currentText, summary |-> summary])
  /\ last' = Last("analyze", NoId, <<>>, <<>>)
  /\ UNCHANGED <<result, contract, initialSession, currentText, summary, risks, selectedRiskId,
                 summaryReqs, saved, now, alerts, seen>>

\* Mutant of ClickAnalyze: the button is not disabled while loading.
ClickAnalyzeWhileLoading == AnalyzeStart(Len(risks) = 0)

\* The analyze button: rendered while risks is empty, disabled while loading.
ClickAnalyze == AnalyzeStart(Len(risks) = 0 /\ ~loading)

\* handleAnalyze after its await.  analyzeContractRisks returns in every
\* case, so the catch block with its alert is never entered; the round trip
\* takes time, so Date.now() has advanced.
AnalyzeResumes(k, reply) ==
  /\ k \in 1..Len(analysis)
  /\ LET time == now + 1
         identifiedRisks == analyzeContractRisks(reply, time)
     IN  /\ now' = time
         /\ risks' = identifiedRisks
         /\ saved' = Append(saved, Session(analysis[k].text, analysis[k].summary,
                                           identifiedRisks, time))
         /\ seen' = seen \cup ResolvedIds(identifiedRisks)
  /\ analysis' = SubSeq(analysis, 1, k - 1) \o SubSeq(analysis, k + 1, Len(analysis))
  /\ loading' = FALSE
  /\ last' = Last(reply.kind, NoId, <<>>, reply.items)
  /\ alerts' = alerts
  /\ UNCHANGED <<result, contract, initialSession, currentText, summary, selectedRiskId, summaryReqs>>

\* Mutant of handleAcceptRisk: the text is edited only when the finding is highlighted.
handleAcceptRiskIfHighlighted(risk) ==
  LET newText == IF risk.id \in HighlightedIds(currentText, risks)
                 THEN StringReplace(currentText, risk.originalText, risk.suggestedText)
                 ELSE currentText
  IN  /\ Len(newText) <= MaxTextLen
      /\ currentText' = newText
      /\ risks' = MarkAddressed(risks, risk.id)
      /\ selectedRiskId' = NoId
      /\ seen' = seen \cup ResolvedIds(risks')
      /\ last' = Last("accept", risk.id, currentText, <<>>)
      /\ UNCHANGED <<result, contract, initialSession, summary, loading, analysis, summaryReqs,
                     saved, now, alerts>>

\* handleAcceptRisk(risk)
handleAcceptRisk(risk) ==
  LET newText == StringReplace(currentText, risk.originalText, risk.suggestedText)
  IN  /\ Len(newText) <= MaxTextLen
      /\ currentText' = newText
      /\ risks' = MarkAddressed(risks, risk.id)
      /\ selectedRiskId' = NoId
      /\ seen' = seen \cup ResolvedIds(risks')
      /\ last' = Last("accept", risk.id, currentText, <<>>)
      /\ UNCHANGED <<result, contract, initialSession, summary, loading, analysis, summaryReqs,
                     saved, now, alerts>>

\* Mutant of handleIgnoreRisk: the replacement is written as by an accept.
handleIgnoreRiskEditing(riskId) ==
  LET risk == risks[FindIndex(risks, riskId)]
      newText == StringReplace(currentText, risk.originalText, risk.suggestedText)
  IN  /\ Len(newText) <= MaxTextLen
      /\ currentText' = newText
      /\ risks' = MarkAddressed(risks, riskId)
      /\ selectedRiskId' = NoId
      /\ seen' = seen \cup ResolvedIds(risks')
      /\ last' = Last("ignore", riskId, <<>>, <<>>)
      /\ UNCHANGED <<result, contract, initialSession, summary, loading, analysis, summaryReqs,
                     saved, now, alerts>>

\* handleIgnoreRisk(riskId)
handleIgnoreRisk(riskId) ==
  /\ risks' = MarkAddressed(risks, riskId)
  /\ selectedRiskId' = NoId
  /\ seen' = seen \cup ResolvedIds(risks')
  /\ last' = Last("ignore", riskId, <<>>, <<>>)
  /\ UNCHANGED <<result, contract, initialSession, currentText, summary, loading, analysis,
                 summaryReqs, saved, now, alerts>>

\* handleSelectRisk(riskId); the deferred scrollIntoView changes no state.
handleSelectRisk(riskId) ==
  /\ selectedRiskId' = riskId
  /\ UNCHANGED <<result, contract, initialSession, currentText, summary, risks, loading, analysis,
                 summaryReqs, saved, now, alerts, seen>>

\* Mutant of NavigateTarget: resolved findings are not filtered out.
NavigateTargetAmongAll(direction) ==
  LET currentIndex == FindIndex(risks, selectedRiskId)
      stepped == IF direction = "next" THEN currentIndex + 1 ELSE currentIndex - 1
      nextIndex == IF stepped > Len(risks) THEN 1
                   ELSE IF stepped < 1 THEN Len(risks)
                   ELSE stepped
  IN  IF currentIndex = 0 THEN selectedRiskId ELSE risks[nextIndex].id

\* navigateRisk: the id it passes to handleSelectRisk, the present selection
\* when it returns early.
NavigateTarget(direction) ==
  LET activeRisks == ActiveRisks(risks)
      currentIndex == FindIndex(activeRisks, selectedRiskId)
      stepped == IF direction = "next" THEN currentIndex + 1 ELSE currentIndex - 1
      nextIndex == IF stepped > Len(activeRisks) THEN 1
                   ELSE IF stepped < 1 THEN Len(activeRisks)
                   ELSE stepped
  IN  IF currentIndex = 0 THEN selectedRiskId ELSE activeRisks[nextIndex].id

navigateRisk(direction) ==
  /\ handleSelectRisk(NavigateTarget(direction))
  /\ last' = Last(direction, selectedRiskId, <<>>, <<>>)

\* setSelectedRiskId(null)
clearSelection ==
  /\ selectedRiskId' = NoId
  /\ last' = Last("close", NoId, <<>>, <<>>)
  /\ UNCHANGED <<result, contract, initialSession, currentText, summary, risks, loading, analysis,
                 summaryReqs, saved, now, alerts, seen>>

\* () => { setRisks([]); setSummary(null); }
resetReview ==
  /\ risks' = <<>>
  /\ summary' = "null"
  /\ last' = Last("reset", NoId, <<>>, <<>>)
  /\ UNCHANGED <<result, contract, initialSession, currentText, loading, selectedRiskId, analysis,
                 summaryReqs, saved, now, alerts, seen>>

\* The buttons of the detail drawer, rendered while selectedRisk is defined.
ClickAccept == SelectedIndex # 0 /\ handleAcceptRisk(risks[SelectedIndex])
ClickIgnore == SelectedIndex # 0 /\ handleIgnoreRisk(risks[SelectedIndex].id)
ClickNavigate == SelectedIndex # 0 /\ \E d \in {"next", "prev"} : navigateRisk(d)
ClickClose == SelectedIndex # 0 /\ clearSelection

\* A click on a highlighted span of the document.
ClickHighlight ==
  \E id \in HighlightedIds(currentText, risks) :
    handleSelectRisk(id) /\ last' = Last("select", id, <<>>, <<>>)

\* The reset button of the dashboard, rendered while risks is not empty.
ClickReset == Len(risks) > 0 /\ resetReview

PropsChange ==
  \/ \E doc \in Docs : LoadDocument(doc)
  \/ \E i \in 1..Len(saved) : RestoreSession(saved[i])

Replies ==
  \/ \E reply \in SummaryReplies : SummaryArrives(reply)
  \/ \E k \in 1..MaxAnalysisReqs, reply \in AnalyzerReplies : AnalyzeResumes(k, reply)

\* The component as the user drives it.
Next ==
  \/ PropsChange
  \/ Replies
  \/ ClickAnalyze
  \/ ClickHighlight
  \/ ClickNavigate
  \/ ClickClose
  \/ ClickAccept
  \/ ClickIgnore
  \/ ClickReset

Spec == Init /\ [][Next]_vars

\* The handlers invoked as the operations of the session manager, on any
\* finding of the list and whatever the view shows.  An analysis pass starts
\* only if its session fits the bound.
OpAnalyze == AnalyzeStart(Len(saved) + Len(analysis) < MaxSessions)
OpSelect ==
  \E i \in 1..Len(risks) :
    handleSelectRisk(risks[i].id) /\ last' = Last("select", risks[i].id, <<>>, <<>>)
OpNavigate == \E d \in {"next", "prev"} : navigateRisk(d)
OpAccept == \E i \in 1..Len(risks) : handleAcceptRisk(risks[i])
OpIgnore == \E i \in 1..Len(risks) : handleIgnoreRisk(risks[i].id)

NextOps ==
  \/ PropsChange
  \/ Replies
  \/ OpAnalyze
  \/ OpSelect
  \/ OpNavigate
  \/ clearSelection
  \/ OpAccept
  \/ OpIgnore
  \/ resetReview

SpecOps == Init /\ [][NextOps]_vars

\* ------------------------------------------------- the services by themselves
\* Each service function awaited with every reply of the model; what it
\* returns goes where its caller puts it (setSummary, setRisks, setResult),
\* and `last` keeps the function's name, the kind of reply and its items.
CallSummarizer(reply) ==
  /\ summary' = generateContractSummary(reply)
  /\ last' = Last("summarizer", NoId, <<reply>>, <<>>)
  /\ UNCHANGED <<contract, initialSession, currentText, risks, loading, selectedRiskId,
                 analysis, summaryReqs, saved, now, alerts, seen, result>>

CallAnalyzer(reply) ==
  /\ risks' = analyzeContractRisks(reply, now)
  /\ last' = Last("analyzer", NoId, <<reply.kind>>, reply.items)
  /\ UNCHANGED <<contract, initialSession, currentText, summary, loading, selectedRiskId,
                 analysis, summaryReqs, saved, now, alerts, seen, result>>

CallDrafter(reply) ==
  /\ result' = draftNewContract(reply)
  /\ last' = Last("drafter", NoId, <<reply>>, <<>>)
  /\ UNCHANGED <<contract, initialSession, currentText, summary, risks, loading,
                 selectedRiskId, analysis, summaryReqs, saved, now, alerts, seen>>

NextServices ==
  \/ \E reply \in SummaryReplies : CallSummarizer(reply)
  \/ \E reply \in AnalyzerReplies : CallAnalyzer(reply)
  \/ \E reply \in DrafterReplies : CallDrafter(reply)

SpecServices == Init /\ [][NextServices]_vars

\* ================================================================= claims
\* The finding the last handler was given, as the list now holds it.
LastRisk == risks[FindIndex(risks, last.id)]

\* The text with the first occurrence of `pat` (at index i) replaced by `repl` as written.
ReplaceFirstLiterally(text, pat, repl) ==
  LET i == IndexOf(text, pat)
  IN  SubSeq(text, 1, i - 1) \o repl \o SubSeq(text, i + Len(pat), Len(text))

\* C1: when the analyzer call of handleAnalyze fails, the finding list and
\* the document text stay as they were and a failure signal (the alert) is
\* raised, which no successful analysis raises.
C1_FailedAnalysisIsSignalled ==
  [][(Len(analysis') < Len(analysis) /\ last'.name = "error")
       => (risks' = risks /\ currentText' = currentText /\ alerts' > alerts)]_vars

\* C2: accepting a finding whose original substring occurs in the document
\* replaces its first occurrence by the replacement substring and keeps the
\* rest of the text.
C2_AcceptWritesTheReplacement ==
  (last.name = "accept" /\ IndexOf(last.text, LastRisk.originalText) # 0)
    => currentText = ReplaceFirstLiterally(last.text, LastRisk.originalText,
                                           LastRisk.suggestedText)

\* C3: accepting a finding whose original substring does not occur in the
\* document leaves the text unchanged, marks the finding resolved and
\* raises no error.
C3_AcceptOfAbsentTextOnlyResolves ==
  (last.name = "accept" /\ IndexOf(last.text, LastRisk.originalText) = 0)
    => (currentText = last.text /\ LastRisk.isAddressed /\ alerts = 0)

\* C3 witness: a finding was accepted whose original substring occurred in
\* the loaded document and had been consumed by an earlier accepted edit.
C3_Witness ==
  /\ last.name = "accept"
  /\ IndexOf(last.text, LastRisk.originalText) = 0
  /\ IndexOf(contract, LastRisk.originalText) # 0
  /\ last.text # contract
  /\ currentText = last.text
  /\ LastRisk.isAddressed

\* The start indices of all occurrences of `pat` in `text`.
Occurrences(text, pat) ==
  { i \in 1..(Len(text) - Len(pat) + 1) : SubSeq(text, i, i + Len(pat) - 1) = pat }

\* The characters at [i, i + n) and [j, j + m) have one in common.
Intersect(i, n, j, m) == i < j + m /\ j < i + n

\* Some occurrence of p1 and some occurrence of p2 in text share a character.
Overlap(text, p1, p2) ==
  \E i \in Occurrences(text, p1), j \in Occurrences(text, p2) :
    Intersect(i, Len(p1), j, Len(p2))

\* The highlighted spans of a rendering: <<start index, length, finding id>>.
TaggedSpans(parts) ==
  { <<1 + Len(ConcatTexts(SubSeq(parts, 1, i - 1))), Len(parts[i].text), parts[i].riskId>> :
      i \in { j \in 1..Len(parts) : parts[j].riskId # NoId } }

\* The finding list an accept or ignore of LastRisk started from, when
\* LastRisk was unresolved then.
RisksBeforeLast ==
  [i \in 1..Len(risks) |->
     IF risks[i].id = last.id THEN [risks[i] EXCEPT !.isAddressed = FALSE] ELSE risks[i]]

\* The last step accepted a finding listed after an unresolved finding whose
\* original substring overlaps its own in the document.
AcceptedLaterOfOverlapping ==
  /\ last.name = "accept"
  /\ \E e \in 1..(FindIndex(risks, last.id) - 1) :
       /\ ~risks[e].isAddressed
       /\ Overlap(last.text, risks[e].originalText, LastRisk.originalText)

\* C4 as claimed: accepting the later-listed of two unresolved findings with
\* overlapping original substrings leaves the document text unchanged and
\* only marks the finding resolved.
C4_AcceptOfLaterOverlappingIsNoOp ==
  AcceptedLaterOfOverlapping => (currentText = last.text /\ LastRisk.isAddressed)

\* C4 as amended: accepting the later-listed of two unresolved findings with
\* overlapping original substrings marks it resolved and replaces the first
\* occurrence of its original substring in the document text by its
\* replacement as String.prototype.replace expands it, keeping the text
\* before and after that occurrence; in the rendering it was accepted from,
\* none of its occurrences that share a character with a highlighted span
\* of an earlier finding is highlighted.
C4_AcceptOfLaterOverlappingReplaces ==
  AcceptedLaterOfOverlapping =>
    LET orig == LastRisk.originalText
        i == IndexOf(last.text, orig)
        before == SubSeq(last.text, 1, i - 1)
        after == SubSeq(last.text, i + Len(orig), Len(last.text))
        mid == GetSubstitution(orig, before, after, LastRisk.suggestedText)
        spans == TaggedSpans(renderDocumentContent(last.text, RisksBeforeLast))
    IN  /\ LastRisk.isAddressed
        /\ i # 0
        /\ Len(currentText) = Len(before) + Len(mid) + Len(after)
        /\ SubSeq(currentText, 1, Len(before)) = before
        /\ SubSeq(currentText, Len(before) + 1, Len(before) + Len(mid)) = mid
        /\ SubSeq(currentText, Len(before) + Len(mid) + 1, Len(currentText)) = after
        /\ \A j \in Occurrences(last.text, orig), sp \in spans :
             (sp[3] # last.id /\ Intersect(j, Len(orig), sp[1], sp[2]))
               => <<j, Len(orig), last.id>> \notin spans

\* C4 witness: the later-listed finding was accepted while its original
\* substring overlapped a highlighted span of the earlier one, and the
\* document text changed.
C4_Witness ==
  /\ AcceptedLaterOfOverlapping
  /\ currentText # last.text
  /\ HighlightedIds(last.text, RisksBeforeLast) # {}
  /\ last.id \notin HighlightedIds(last.text, RisksBeforeLast)

\* C5: the fragments of renderDocumentContent, concatenated in order, are
\* the current document text.
C5_RenderPartitionsTheText ==
  ConcatTexts(renderDocumentContent(currentText, risks)) = currentText

\* C5 witness: a rendering with highlighted spans of two findings, one of
\* them of the empty original substring, while another finding is unresolved
\* or resolved in a text an accepted edit has changed.
C5_Witness ==
  LET parts == renderDocumentContent(currentText, risks)
  IN  /\ \E i, j \in 1..Len(parts) :
           /\ parts[i].riskId # NoId /\ parts[i].text = <<>>
           /\ parts[j].riskId # NoId /\ parts[j].text # <<>>
      /\ Len(parts) >= 5
      /\ initialSession # <<>>

\* The plain fragments of a rendering: <<start index, length>>.
PlainSpans(parts) ==
  { <<1 + Len(ConcatTexts(SubSeq(parts, 1, i - 1))), Len(parts[i].text)>> :
      i \in { j \in 1..Len(parts) : parts[j].riskId = NoId } }

\* C6: renderDocumentContent takes the unresolved findings in list order;
\* the pass of a finding keeps every span highlighted before it as it is and
\* carves its own spans out of plain fragments only; the text of a
\* highlighted span is its finding's original substring, and no span
\* belongs to a resolved finding.
C6_PassesCarveOnlyPlainFragments ==
  LET active == ActiveRisks(risks)
      parts == renderDocumentContent(currentText, risks)
  IN  /\ \A k \in 1..Len(active) :
           LET prev == RenderAfter(currentText, active, k - 1)
               next == RenderAfter(currentText, active, k)
           IN  /\ TaggedSpans(prev) \subseteq TaggedSpans(next)
               /\ \A sp \in TaggedSpans(next) \ TaggedSpans(prev) :
                    /\ sp[3] = active[k].id
                    /\ \E pl \in PlainSpans(prev) :
                         pl[1] <= sp[1] /\ sp[1] + sp[2] <= pl[1] + pl[2]
      /\ \A i \in 1..Len(parts) :
           parts[i].riskId # NoId =>
             /\ FindIndex(risks, parts[i].riskId) # 0
             /\ ~risks[FindIndex(risks, parts[i].riskId)].isAddressed
             /\ parts[i].text = risks[FindIndex(risks, parts[i].riskId)].originalText

\* C6 witness: two unresolved findings whose original substrings overlap in
\* the text; the earlier one is highlighted and the later one, which occurs
\* in the text, is not.
C6_Witness ==
  LET active == ActiveRisks(risks)
  IN  /\ Len(active) = 2
      /\ Overlap(currentText, active[1].originalText, active[2].originalText)
      /\ HighlightedIds(currentText, risks) = { active[1].id }

\* C7: accepting or ignoring a finding that is already resolved changes
\* neither the document text nor the finding list.
C7_ResolvingAgainChangesNothing ==
  [][\A i \in 1..Len(risks) :
       (risks[i].isAddressed /\ last'.name \in {"accept", "ignore"} /\ last'.id = risks[i].id)
         => (currentText' = currentText /\ risks' = risks)]_vars

\* C8 as claimed: no step turns the resolved flag of a listed finding id
\* from true to false.
C8_ResolvedNeverReverts ==
  [][\A i \in 1..Len(risks), j \in 1..Len(risks') :
       (risks[i].id = risks'[j].id /\ risks[i].isAddressed) => risks'[j].isAddressed]_vars

\* C8 as amended: a finding id seen resolved since the props last changed
\* (the last document load or session restore) is resolved wherever the
\* list holds it.
C8_ResolvedStaysResolvedUntilPropsChange ==
  \A i \in 1..Len(risks) : risks[i].id \in seen => risks[i].isAddressed

\* C8 witness: after a session restore one finding has been resolved and
\* stays so while a second, unresolved one is selected.
C8_Witness ==
  /\ initialSession # <<>>
  /\ Len(risks) = 2
  /\ risks[1].id \in seen /\ risks[1].isAddressed
  /\ ~risks[2].isAddressed
  /\ selectedRiskId = risks[2].id

\* C9: navigateRisk changes nothing but the selection; from a selected
\* unresolved finding it selects the following (next) or preceding (prev)
\* unresolved finding in list order, wrapping at either end, and it leaves
\* the selection as it is when no unresolved finding is selected.
C9_NavigateCyclesThroughUnresolved ==
  [][last'.name \in {"next", "prev"} =>
       LET act == ActiveRisks(risks)
           n == Len(act)
           k == FindIndex(act, selectedRiskId)
       IN  /\ UNCHANGED <<contract, initialSession, currentText, summary, risks, loading,
                          analysis, summaryReqs, saved, now, alerts>>
           /\ k = 0 => selectedRiskId' = selectedRiskId
           /\ (k # 0 /\ last'.name = "next") => selectedRiskId' = act[(k % n) + 1].id
           /\ (k # 0 /\ last'.name = "prev") => selectedRiskId' = act[((k + n - 2) % n) + 1].id]_vars

\* C9 witness: next from the last of two unresolved findings has selected the first.
C9_Witness ==
  LET act == ActiveRisks(risks)
  IN  /\ last.name = "next"
      /\ Len(act) = 2
      /\ last.id = act[2].id
      /\ selectedRiskId = act[1].id

\* C10: right after an analysis that returned an array the finding list is
\* that array in its order, every finding unresolved; and the ids of the
\* finding list are pairwise distinct in every state.
C10_AnalysisInstallsFindingsWithDistinctIds ==
  /\ \A i, j \in 1..Len(risks) : i # j => risks[i].id # risks[j].id
  /\ last.name = "array" =>
       /\ Len(risks) = Len(last.items)
       /\ \A i \in 1..Len(risks) :
            /\ risks[i].originalText = last.items[i].originalText
            /\ risks[i].suggestedText = last.items[i].suggestedText
            /\ risks[i].level = last.items[i].level
            /\ ~risks[i].isAddressed
            /\ risks[i].id # NoId

\* C10 witness: an analysis has returned the same finding twice.
C10_Witness ==
  /\ last.name = "array"
  /\ Len(risks) = 2
  /\ risks[1].originalText = risks[2].originalText
  /\ risks[1].id # risks[2].id

\* An analysis has just resumed: the last step was AnalyzeResumes.
AnalysisJustResumed == last.name \in {"array", "malformed", "error"}

\* The session handed to onSaveSession most recently.
LastSaved == saved[Len(saved)]

\* C11: the session emitted by handleAnalyze combines the state at the moment
\* of emission: its document text is the current text, its summary is the
\* current summary (also one that arrived while the analysis was in flight)
\* and its findings are the list just installed.
C11_SnapshotCombinesCurrentState ==
  AnalysisJustResumed =>
    /\ LastSaved.content = currentText
    /\ LastSaved.summary = summary
    /\ LastSaved.risks = risks

\* C12: a session is emitted once by an analysis pass whose analyzer call
\* succeeded, and by no analysis pass whose analyzer call failed; no other
\* step emits one.
C12_SnapshotOnlyAfterSuccessfulAnalysis ==
  [][/\ (Len(analysis') < Len(analysis) /\ last'.name = "array")
          => (Len(saved') = Len(saved) + 1 /\ SubSeq(saved', 1, Len(saved)) = saved)
     /\ (Len(analysis') < Len(analysis) /\ last'.name = "error") => saved' = saved
     /\ Len(analysis') >= Len(analysis) => saved' = saved]_vars

\* C13: right after the effect has run for new props the text is the new
\* document's content; without a session the finding list is empty and the
\* summary absent, with a session the finding list and the summary are the
\* session's.
C13_LoadInstallsDocumentAndSession ==
  /\ last.name = "load" =>
       /\ initialSession = <<>>
       /\ currentText = contract
       /\ risks = <<>>
       /\ summary = "null"
  /\ last.name = "restore" =>
       /\ initialSession # <<>>
       /\ currentText = contract
       /\ currentText = initialSession[1].content
       /\ risks = initialSession[1].risks
       /\ summary = initialSession[1].summary

\* C13 witness: a session with two findings, taken before the summary had
\* arrived, was restored after the summary had arrived.
C13_Witness ==
  /\ last.name = "restore"
  /\ Len(risks) = 2
  /\ risks = saved[1].risks
  /\ summary = "null"
  /\ summaryReqs = 0

\* C14: in every state at most one analyzer call and at most one summary
\* call are in flight.
C14_OneAnalysisAndOneSummaryInFlight ==
  /\ Len(analysis) <= 1
  /\ summaryReqs <= 1

\* C14, analyzer calls only: at most one is in flight, and one is in flight
\* exactly while loading is set.
C14_OneAnalysisInFlight ==
  /\ Len(analysis) <= 1
  /\ loading <=> Len(analysis) = 1

\* C14 witness: an analyzer call is in flight together with the summary
\* calls of the mount and of a later document load.
C14_Witness ==
  /\ Len(analysis) = 1
  /\ loading
  /\ risks = <<>>
  /\ summaryReqs = 2

\* C15: only an accept and a change of props (document load, session
\* restore) change the document text: ignore, select, close, navigate, the
\* start and the end of an analysis (whatever the reply), a summary arrival
\* and reset leave it as it is; select, close and navigate leave the finding
\* list as it is too.  Rendering is an operator and has no step.
C15_OnlyAcceptAndLoadChangeTheText ==
  [][/\ last'.name \notin {"accept", "load", "restore"} => currentText' = currentText
     /\ last'.name \in {"select", "close", "next", "prev"} => risks' = risks]_vars

\* C15 witness: a finding was ignored whose original substring occurs in the
\* text and differs from its replacement: the text still holds it.
C15_Witness ==
  /\ last.name = "ignore"
  /\ LastRisk.isAddressed
  /\ LastRisk.originalText # <<>>
  /\ IndexOf(currentText, LastRisk.originalText) # 0
  /\ currentText = contract

\* The kind of reply the service function called last was given.
LastReplyIs(service, kinds) ==
  last.name = service /\ \E k \in kinds : last.text = <<k>>

\* C16: every failure of an external call (a rejected call, an unparseable
\* reply, a reply of the wrong shape) ends in the fallback value of the
\* service function: the "Unknown" summary, the empty finding list, a
\* placeholder string.
C16_EveryFailureGivesTheFallback ==
  /\ LastReplyIs("summarizer", {"error", "empty"}) => summary = UnknownSummary
  /\ LastReplyIs("analyzer", {"error", "malformed"}) => risks = <<>>
  /\ LastReplyIs("drafter", {"error", "empty"})
       => result \in {"Error drafting contract.", "Drafting failed."}

\* C16, without the replies that are parsed but not of the expected shape:
\* a rejected call or an unparseable reply ends in the fallback value, and so
\* does an analyzer reply that is no array; a summarizer reply without text is
\* returned as the object {}, not as the fallback.
C16_RejectedOrUnparseableGivesTheFallback ==
  /\ LastReplyIs("summarizer", {"error"}) => summary = UnknownSummary
  /\ LastReplyIs("summarizer", {"empty"}) => summary = "EmptyObject"
  /\ LastReplyIs("analyzer", {"error", "malformed"}) => risks = <<>>
  /\ LastReplyIs("drafter", {"error"}) => result = "Error drafting contract."
  /\ LastReplyIs("drafter", {"empty"}) => result = "Drafting failed."

\* C16 witness: the drafting call was rejected after the summarizer and the
\* analyzer had returned their fallbacks.
C16_Witness ==
  /\ LastReplyIs("drafter", {"error"})
  /\ result = "Error drafting contract."
  /\ summary = UnknownSummary
  /\ risks = <<>>

\* C17: in every state a selection that is not null names a finding of the
\* current list that is unresolved; so accept and ignore clear it, and no
\* step that replaces or empties the list (analysis result, reset, session
\* restore) leaves it on a finding that is gone or resolved.
C17_SelectionNamesUnresolvedFinding ==
  selectedRiskId # NoId =>
    \E i \in 1..Len(risks) : risks[i].id = selectedRiskId /\ ~risks[i].isAddressed

====
